---- MODULE Spec2Model ----
(***************************************************************************)
(* The review subsystem of the movie viewer: the per-movie review store    *)
(* kept in the browser's localStorage and the review form of the genre     *)
(* page component (Home) and of the dedicated horror page.                 *)
(*                                                                         *)
(* JavaScript strings are sequences of one-character strings.  JavaScript  *)
(* numbers are integers counting tenths (75 is 7.5), so the model's        *)
(* numbers have at most one fractional digit.  JavaScript values are       *)
(* tagged records (see JNull .. JObj).                                      *)
(***************************************************************************)
EXTENDS Integers, Sequences, FiniteSets, TLC

\* ------------------------------------------------------------------------
\* Bounds of the model

\* A submit is accepted while localStorage holds fewer reviews in all.
MaxReviews == 2

\* ------------------------------------------------------------------------
\* JavaScript values

JNull == [t |-> "null"]
JUndefined == [t |-> "undefined"]
JBool(b) == [t |-> "bool", b |-> b]
JNum(n) == [t |-> "num", n |-> n]
JStr(s) == [t |-> "str", s |-> s]
JArr(a) == [t |-> "arr", a |-> a]
\* an object is the sequence of its <<key, value>> properties in insertion order
JObj(f) == [t |-> "obj", f |-> f]

\* Review: { rating: number; comment: string }, built as { rating, comment }
RatingKey == <<"r", "a", "t", "i", "n", "g">>
CommentKey == <<"c", "o", "m", "m", "e", "n", "t">>
Review(r, c) == JObj(<< <<RatingKey, JNum(r)>>, <<CommentKey, JStr(c)>> >>)

\* the value of property k of object o, JNull standing for undefined
RECURSIVE PropAt(_, _, _)
PropAt(f, k, i) ==
  IF i > Len(f) THEN JNull
  ELSE IF f[i][1] = k THEN f[i][2] ELSE PropAt(f, k, i + 1)

Prop(o, k) == IF o.t = "obj" THEN PropAt(o.f, k, 1) ELSE JNull

\* ------------------------------------------------------------------------
\* Decimal digits

Digits == <<"0", "1", "2", "3", "4", "5", "6", "7", "8", "9">>

IsDigit(c) == \E d \in 1..Len(Digits) : Digits[d] = c

DigitVal(c) == (CHOOSE d \in 1..Len(Digits) : Digits[d] = c) - 1

RECURSIVE NatToChars(_)
NatToChars(n) ==
  IF n < Len(Digits) THEN <<Digits[n + 1]>>
  ELSE NatToChars(n \div Len(Digits)) \o <<Digits[(n % Len(Digits)) + 1]>>

\* Number::toString of a finite number held in tenths
NumberToChars(n) ==
  LET a == IF n < 0 THEN -n ELSE n
      whole == NatToChars(a \div Len(Digits))
      frac == IF a % Len(Digits) = 0 THEN <<>>
              ELSE <<".", Digits[(a % Len(Digits)) + 1]>>
  IN  (IF n < 0 THEN <<"-">> ELSE <<>>) \o whole \o frac

\* the end of the run of digits of s that starts at i (i itself when none)
RECURSIVE DigitsEnd(_, _)
DigitsEnd(s, i) ==
  IF i <= Len(s) /\ IsDigit(s[i]) THEN DigitsEnd(s, i + 1) ELSE i

\* the natural number written by the digits s[i..j-1]
RECURSIVE DigitsVal(_, _, _)
DigitsVal(s, i, j) ==
  IF j <= i THEN 0
  ELSE DigitsVal(s, i, j - 1) * Len(Digits) + DigitVal(s[j - 1])

\* ------------------------------------------------------------------------
\* JSON.stringify (src/unnamed/part_001:47), for the values the page keeps

IsEscaped(c) == c = "\"" \/ c = "\\"

\* mutant: nothing escaped
EscapeNothing(s) == s

RECURSIVE EscapeChars(_)
EscapeChars(s) ==
  IF s = <<>> THEN <<>>
  ELSE (IF IsEscaped(Head(s)) THEN <<"\\", Head(s)>> ELSE <<Head(s)>>)
       \o EscapeChars(Tail(s))

QuoteChars(s) == <<"\"">> \o EscapeChars(s) \o <<"\"">>

NullChars == <<"n", "u", "l", "l">>
TrueChars == <<"t", "r", "u", "e">>
FalseChars == <<"f", "a", "l", "s", "e">>

RECURSIVE Stringify(_), StringifyElems(_, _), StringifyProps(_, _)
Stringify(v) ==
  CASE v.t = "null" -> NullChars
    [] v.t = "bool" -> IF v.b THEN TrueChars ELSE FalseChars
    [] v.t = "num" -> NumberToChars(v.n)
    [] v.t = "str" -> QuoteChars(v.s)
    [] v.t = "arr" -> <<"[">> \o StringifyElems(v.a, 1) \o <<"]">>
    [] v.t = "obj" -> <<"{">> \o StringifyProps(v.f, 1) \o <<"}">>

StringifyElems(a, i) ==
  IF i > Len(a) THEN <<>>
  ELSE (IF i > 1 THEN <<",">> ELSE <<>>) \o Stringify(a[i])
       \o StringifyElems(a, i + 1)

StringifyProps(f, i) ==
  IF i > Len(f) THEN <<>>
  ELSE (IF i > 1 THEN <<",">> ELSE <<>>) \o QuoteChars(f[i][1]) \o <<":">>
       \o Stringify(f[i][2]) \o StringifyProps(f, i + 1)

\* ------------------------------------------------------------------------
\* JSON.parse (src/unnamed/part_001:40).  A parse step answers
\* [ok, v, i]: whether it succeeded, the value, and the next index.
\* ok = FALSE is the SyntaxError JSON.parse throws.

Fail == [ok |-> FALSE, v |-> JNull, i |-> 0]
Ok(v, i) == [ok |-> TRUE, v |-> v, i |-> i]

IsWs(c) == c = " " \/ c = "\n" \/ c = "\t"

RECURSIVE SkipWs(_, _)
SkipWs(s, i) == IF i <= Len(s) /\ IsWs(s[i]) THEN SkipWs(s, i + 1) ELSE i

HasAt(s, i, lit) ==
  /\ i + Len(lit) - 1 <= Len(s)
  /\ SubSeq(s, i, i + Len(lit) - 1) = lit

\* a property list with key k set to v: replaced in place, or appended
SetProp(f, k, v) ==
  IF \E j \in 1..Len(f) : f[j][1] = k
  THEN [j \in 1..Len(f) |-> IF f[j][1] = k THEN <<k, v>> ELSE f[j]]
  ELSE Append(f, <<k, v>>)

ParseNumber(s, i) ==
  LET neg == s[i] = "-"
      j == IF neg THEN i + 1 ELSE i
      intEnd == IF s[j] = "0" THEN j + 1 ELSE DigitsEnd(s, j)
      hasFrac == intEnd <= Len(s) /\ s[intEnd] = "."
      whole == DigitsVal(s, j, intEnd) * Len(Digits)
      mag == IF hasFrac THEN whole + DigitVal(s[intEnd + 1]) ELSE whole
  IN  IF j > Len(s) \/ ~IsDigit(s[j]) THEN Fail
      ELSE IF hasFrac /\ (intEnd + 1 > Len(s) \/ ~IsDigit(s[intEnd + 1]))
      THEN Fail
      ELSE Ok(JNum(IF neg THEN -mag ELSE mag),
              IF hasFrac THEN intEnd + 2 ELSE intEnd)

\* the characters of a string literal whose opening quote is before i
RECURSIVE ParseString(_, _, _)
ParseString(s, i, acc) ==
  IF i > Len(s) \/ s[i] = "\n" \/ s[i] = "\t" THEN Fail
  ELSE IF s[i] = "\"" THEN Ok(JStr(acc), i + 1)
  ELSE IF s[i] = "\\"
  THEN IF i + 1 <= Len(s) /\ (IsEscaped(s[i + 1]) \/ s[i + 1] = "/")
       THEN ParseString(s, i + 2, Append(acc, s[i + 1]))
       ELSE Fail
  ELSE ParseString(s, i + 1, Append(acc, s[i]))

RECURSIVE ParseValue(_, _), ParseElems(_, _, _), ParseProps(_, _, _)
ParseValue(s, i) ==
  LET k == SkipWs(s, i)
      k1 == SkipWs(s, k + 1)
  IN  IF k > Len(s) THEN Fail
      ELSE IF HasAt(s, k, NullChars) THEN Ok(JNull, k + Len(NullChars))
      ELSE IF HasAt(s, k, TrueChars) THEN Ok(JBool(TRUE), k + Len(TrueChars))
      ELSE IF HasAt(s, k, FalseChars)
      THEN Ok(JBool(FALSE), k + Len(FalseChars))
      ELSE IF s[k] = "\"" THEN ParseString(s, k + 1, <<>>)
      ELSE IF s[k] = "-" \/ IsDigit(s[k]) THEN ParseNumber(s, k)
      ELSE IF s[k] = "["
      THEN IF k1 <= Len(s) /\ s[k1] = "]" THEN Ok(JArr(<<>>), k1 + 1)
           ELSE ParseElems(s, k1, <<>>)
      ELSE IF s[k] = "{"
      THEN IF k1 <= Len(s) /\ s[k1] = "}" THEN Ok(JObj(<<>>), k1 + 1)
           ELSE ParseProps(s, k1, <<>>)
      ELSE Fail

\* the elements of an array from i on, acc being those already read
ParseElems(s, i, acc) ==
  LET e == ParseValue(s, i)
      k == SkipWs(s, e.i)
  IN  IF ~e.ok \/ k > Len(s) THEN Fail
      ELSE IF s[k] = "," THEN ParseElems(s, k + 1, Append(acc, e.v))
      ELSE IF s[k] = "]" THEN Ok(JArr(Append(acc, e.v)), k + 1)
      ELSE Fail

\* the properties of an object from i on, acc being those already read
ParseProps(s, i, acc) ==
  LET q == SkipWs(s, i)
      key == IF q <= Len(s) /\ s[q] = "\"" THEN ParseString(s, q + 1, <<>>)
             ELSE Fail
      c == SkipWs(s, key.i)
      e == ParseValue(s, c + 1)
      k == SkipWs(s, e.i)
  IN  IF ~key.ok \/ c > Len(s) \/ s[c] # ":" THEN Fail
      ELSE IF ~e.ok \/ k > Len(s) THEN Fail
      ELSE IF s[k] = ","
      THEN ParseProps(s, k + 1, SetProp(acc, key.v.s, e.v))
      ELSE IF s[k] = "}"
      THEN Ok(JObj(SetProp(acc, key.v.s, e.v)), k + 1)
      ELSE Fail

\* JSON.parse(text): [ok, v]; ok = FALSE when it throws
JsonParse(s) ==
  LET r == ParseValue(s, 1)
  IN  IF r.ok /\ SkipWs(s, r.i) > Len(s) THEN [ok |-> TRUE, v |-> r.v]
      ELSE [ok |-> FALSE, v |-> JNull]

\* A saved list holds at most this many reviews.
MaxLen == 2

\* ------------------------------------------------------------------------
\* Inputs of the model

\* the movies of the catalog page (Movie.id, src/unnamed/part_001:12)
MovieIds == {1, 11}

\* what the rating field can deliver as e.target.value: an <input
\* type="number"> (src/unnamed/part_001:306) holds "" or a decimal number
RatingTexts ==
  { <<>>, <<"0">>, <<"1">>, <<"7", ".", "5">>, <<"1", "0">>, <<"1", "1">> }

\* what the comment field can deliver as e.target.value
CommentTexts == { <<>>, <<"a">> }

\* what the search box can deliver as event.target.value
QueryTexts == { <<>>, <<"a">>, <<"B">> }

\* the options of the sort dropdown (part_001:341-343)
SortOptions == {"newest", "highest", "lowest"}

\* texts an entry of localStorage may hold when the page did not write it:
\* "", null, {}, [, [], "a", and a list of one review
StoredTexts ==
  { <<>>, NullChars, <<"{", "}">>, <<"[">>, <<"[", "]">>,
    <<"\"", "a", "\"">>,
    <<"[", "{">> \o QuoteChars(RatingKey) \o <<":", "7", ",">>
      \o QuoteChars(CommentKey) \o <<":", "\"", "b", "\"", "}", "]">> }

\* the reviews of the lists handed to save
SavedRatings == {10, 75, 100}  \* 1, 7.5 and 10
SavedComments == { <<>>, <<"a", "\"">>, <<"\\">> }

\* ------------------------------------------------------------------------
\* JavaScript conversions and operators the page uses

\* a whole number k as a number of the model
Whole(k) == k * Len(Digits)

\* Number(text) for the texts of a number field: "" is 0, otherwise the
\* decimal the text writes (a sign, digits, at most one fractional digit)
ToNumber(s) ==
  LET neg == s # <<>> /\ s[1] = "-"
      j == IF neg THEN 2 ELSE 1
      intEnd == DigitsEnd(s, j)
      hasFrac == intEnd < Len(s) /\ s[intEnd] = "."
      whole == Whole(DigitsVal(s, j, intEnd))
      mag == IF hasFrac THEN whole + DigitVal(s[intEnd + 1]) ELSE whole
  IN  IF neg THEN -mag ELSE mag

\* ToBoolean(v), the test of `v ? .. : ..` and of `v && ..`
Truthy(v) ==
  CASE v.t = "null" -> FALSE
    [] v.t = "undefined" -> FALSE
    [] v.t = "bool" -> v.b
    [] v.t = "num" -> v.n # 0
    [] v.t = "str" -> v.s # <<>>
    [] OTHER -> TRUE

\* whether [...v] evaluates: arrays and strings are iterable
IsIterable(v) == v.t = "arr" \/ v.t = "str"

\* [...v] of an iterable v
Spread(v) == IF v.t = "arr" THEN v.a ELSE [i \in 1..Len(v.s) |-> JStr(<<v.s[i]>>)]

\* String.prototype.toLowerCase, over the letters the model's texts use
LowerChar(c) ==
  CASE c = "A" -> "a" [] c = "B" -> "b" [] c = "C" -> "c" [] OTHER -> c

ToLowerCase(s) == [i \in 1..Len(s) |-> LowerChar(s[i])]

\* String.prototype.includes
Includes(s, sub) ==
  \E i \in 0..(Len(s) - Len(sub)) : SubSeq(s, i + 1, i + Len(sub)) = sub

\* ------------------------------------------------------------------------
\* localStorage: a function from the keys that have an entry to their texts

\* `movie-reviews-${movieId}`
KeyPrefix ==
  <<"m", "o", "v", "i", "e", "-", "r", "e", "v", "i", "e", "w", "s", "-">>

\* mutant: the id left out of the key
StorageKeyNoId(movieId) == KeyPrefix

StorageKey(movieId) == KeyPrefix \o NatToChars(movieId)

\* localStorage.getItem(key): the text, or null
GetItem(store, key) ==
  IF key \in DOMAIN store THEN JStr(store[key]) ELSE JNull

\* localStorage.setItem(key, text)
SetItem(store, key, text) ==
  [k \in DOMAIN store \cup {key} |-> IF k = key THEN text ELSE store[k]]

\* what a call answers: a value, or a thrown exception
Returned(v) == [ok |-> TRUE, v |-> v]
Thrown == [ok |-> FALSE, v |-> JNull]

\* mutant: the item parsed without the test that there is one
\* (JSON.parse(null) parses the text "null")
loadReviewsUnchecked(store, movieId) ==
  LET item == GetItem(store, StorageKey(movieId))
      text == IF item.t = "str" THEN item.s ELSE NullChars
  IN  IF JsonParse(text).ok THEN Returned(JsonParse(text).v) ELSE Thrown

loadReviewsFromLocalStorage(store, movieId) ==
  LET item == GetItem(store, StorageKey(movieId))
  IN  IF Truthy(item)
      THEN IF JsonParse(item.s).ok THEN Returned(JsonParse(item.s).v)
           ELSE Thrown
      ELSE Returned(JArr(<<>>))

\* String(v) of an array: its elements' strings joined by commas, an
\* object's string being [object Object]
ObjectChars ==
  <<"[", "o", "b", "j", "e", "c", "t", " ", "O", "b", "j", "e", "c", "t", "]">>

RECURSIVE JoinObjects(_)
JoinObjects(n) ==
  IF n = 0 THEN <<>>
  ELSE IF n = 1 THEN ObjectChars
  ELSE JoinObjects(n - 1) \o <<",">> \o ObjectChars

\* mutant: JSON.stringify forgotten, so that setItem stores String(list)
saveReviewsUnserialized(store, movieId, list) ==
  SetItem(store, StorageKey(movieId), JoinObjects(Len(list.a)))

saveReviewsToLocalStorage(store, movieId, list) ==
  SetItem(store, StorageKey(movieId), Stringify(list))

\* the number of reviews localStorage holds, over all its entries
RECURSIVE StoredCount(_, _)
StoredCount(store, keys) ==
  IF keys = {} THEN 0
  ELSE LET k == CHOOSE x \in keys : TRUE
           p == JsonParse(store[k])
       IN  (IF p.ok /\ p.v.t = "arr" THEN Len(p.v.a) ELSE 0)
           + StoredCount(store, keys \ {k})

\* ------------------------------------------------------------------------
\* The page component (Home, src/unnamed/part_001:50)

VARIABLES
  storage,       \* localStorage of the origin
  currentMovie,  \* Movie | null
  rating,        \* number | null
  comment,       \* string
  reviews,       \* Review[] by its type; whatever load answered
  isModalOpen,
  errorMessage,
  activeTab,     \* "details" | "reviews"
  crashed,       \* an exception escaped an effect or a render
  sortOption,    \* "newest" | "highest" | "lowest"
  movies,        \* Movie[], the catalog response
  filteredMovies,\* Movie[], the movies of the grid
  query,         \* string, the state of SearchBar
  catalog,       \* "pending" until the response of fetchMovies is handled
  otherTab,      \* the state of the page in a second tab of the browser
  horror,        \* the state of the horror page (src/app/horror/page.tsx)
  trailer,       \* Trailer | null, and undefined once trailers[1] was absent
  pending,       \* the movies whose videos response is on its way
  videoApi,      \* what the videos query answers for each movie
  ev,            \* history: the last call, with its arguments and answer
  pre            \* history: the state the last call started from

vars ==
  <<storage, currentMovie, rating, comment, reviews, isModalOpen,
    errorMessage, activeTab, crashed, sortOption, movies, filteredMovies,
    query, catalog, otherTab, horror, trailer, pending, videoApi, ev, pre>>

\* the page's state outside the review form and the modal
listVars == <<sortOption, movies, filteredMovies, query, catalog>>

\* the trailer of the modal and the videos query behind it
trailerVars == <<trailer, pending, videoApi>>

\* Movie.title of the movies of the catalog
Title(id) == IF id = 1 THEN <<"A", "b">> ELSE <<"C", "b">>

Movie(id) == [t |-> "movie", id |-> id, title |-> Title(id)]

\* response.data.results of the catalog query (part_001:77)
Results == <<Movie(1), Movie(11)>>

RatingError == "Rating must be between 1 and 10."

MinRating == 1
MaxRating == 10

\* Trailer: { key: string; site: string } (part_001:24-27)
Video(key, site) == [t |-> "video", key |-> key, site |-> site]

\* the videos query answers with response.data.results, or is refused
Answered(results) == [ok |-> TRUE, v |-> results]
Refused == [ok |-> FALSE, v |-> <<>>]

NoVideos == [id \in MovieIds |-> Refused]

\* fetchTrailer(movieId) sends the query (part_001:114-124); a refused
\* query ends in the catch, an answered one in a response that is handled
\* later
Requested(requests, api, id) ==
  IF api[id].ok THEN requests \cup {id} ELSE requests

\* a[i] of an array, undefined past its end
ElementAt(a, i) == IF i + 1 <= Len(a) THEN a[i + 1] ELSE JUndefined

\* the index of the trailer shown (part_001:127)
TrailerIndex == 1

IsYouTube(video) == video.site = "YouTube"

\* the trailer state after a response is handled (part_001:125-128)
SelectTrailer(results, current) ==
  LET trailers == SelectSeq(results, IsYouTube)
  IN  IF Len(trailers) > 0 THEN ElementAt(trailers, TrailerIndex)
      ELSE current

\* the state a call starts from, with the call before it (op) and whether
\* that call changed localStorage (wrote)
Snapshot ==
  [storage |-> storage, currentMovie |-> currentMovie, rating |-> rating,
   comment |-> comment, reviews |-> reviews, isModalOpen |-> isModalOpen,
   errorMessage |-> errorMessage, activeTab |-> activeTab,
   op |-> ev.op, wrote |-> (storage # pre.storage)]

Event(op, id, arg, ret) == [op |-> op, id |-> id, arg |-> arg, ret |-> ret]

\* the state of the page this tab shows
PageState ==
  [currentMovie |-> currentMovie, rating |-> rating, comment |-> comment,
   reviews |-> reviews, isModalOpen |-> isModalOpen,
   errorMessage |-> errorMessage, activeTab |-> activeTab,
   crashed |-> crashed, sortOption |-> sortOption, movies |-> movies,
   filteredMovies |-> filteredMovies, query |-> query, catalog |-> catalog,
   trailer |-> trailer, pending |-> pending]

\* the state hooks at the first render (part_001:51-61)
InitialPageState ==
  [currentMovie |-> JNull, rating |-> JNull, comment |-> <<>>,
   reviews |-> JArr(<<>>), isModalOpen |-> FALSE, errorMessage |-> "",
   activeTab |-> "details", crashed |-> FALSE, sortOption |-> "newest",
   movies |-> <<>>, filteredMovies |-> <<>>, query |-> <<>>,
   catalog |-> "pending", trailer |-> JNull, pending |-> {}]

\* the state hooks of Horror at the first render
\* (src/app/horror/page.tsx:52-60), its localStorage, and the last event
\* it was given
InitialHorror(store, event, before) ==
  [storage |-> store, movies |-> <<>>, currentMovie |-> JNull,
   rating |-> JNull, comment |-> <<>>, reviews |-> JArr(<<>>),
   isModalOpen |-> FALSE, errorMessage |-> "", crashed |-> FALSE,
   handled |-> <<event, before>>]

\* the genre component at its first render
InitHome ==
  /\ currentMovie = JNull
  /\ rating = JNull
  /\ comment = <<>>
  /\ reviews = JArr(<<>>)
  /\ isModalOpen = FALSE
  /\ errorMessage = ""
  /\ activeTab = "details"
  /\ crashed = FALSE
  /\ sortOption = "newest"
  /\ movies = <<>>
  /\ filteredMovies = <<>>
  /\ query = <<>>
  /\ catalog = "pending"
  /\ trailer = JNull
  /\ pending = {}
  /\ otherTab = InitialPageState
  /\ ev = Event("init", 0, JNull, Returned(JNull))
  /\ pre = [storage |-> storage, currentMovie |-> currentMovie,
            rating |-> rating, comment |-> comment, reviews |-> reviews,
            isModalOpen |-> isModalOpen, errorMessage |-> errorMessage,
            activeTab |-> activeTab, op |-> "init", wrote |-> FALSE]

\* the genre component alone: the horror page is not opened
\* and the videos query is refused, which leaves the page as it is
\* (part_001:129-131)
InitPage ==
  /\ InitHome
  /\ horror = InitialHorror(<< >>, ev, JNull)
  /\ videoApi = NoVideos

Init ==
  /\ storage = << >>
  /\ InitPage

\* the render after a state change: [...reviews] (part_001:203) throws
\* when reviews is not iterable
RenderThrows(list) == ~IsIterable(list)

\* mutant: the effect does not load, the list of the movie before stays
EffectKeeps(store, movie, list) == Returned(list)

\* useEffect(.., [currentMovie]) (part_001:88-92), run when the movie
\* changed: the list it sets, or the exception load threw
EffectLoad(store, movie, list) ==
  IF Truthy(movie)
  THEN IF loadReviewsFromLocalStorage(store, movie.id).ok
       THEN Returned(loadReviewsFromLocalStorage(store, movie.id).v)
       ELSE Thrown
  ELSE Returned(list)

\* the response of the catalog query arrives (part_001:65-78)
fetchMoviesResolved ==
  /\ ~crashed
  /\ catalog = "pending"
  /\ catalog' = "done"
  /\ movies' = Results
  /\ filteredMovies' = Results
  /\ ev' = Event("movies", 0, JNull, Returned(JNull))
  /\ pre' = Snapshot
  /\ UNCHANGED <<storage, currentMovie, rating, comment, reviews,
                 isModalOpen, errorMessage, activeTab, crashed, sortOption,
                 query, otherTab, horror, trailerVars>>

\* the movies of the grid (part_001:224)
InGrid(movie) == \E i \in 1..Len(filteredMovies) : filteredMovies[i] = movie

\* a click on a movie of the grid; the grid is covered while the modal is
\* open (src/unnamed/part_003:16).  The effect on currentMovie runs in the
\* commit of the click's update, before any other handler, and the render
\* that follows its setReviews is part of the same step.
openModal(id) ==
  LET movie == Movie(id)
      loaded == IF movie # currentMovie
                THEN EffectLoad(storage, movie, reviews)
                ELSE Returned(reviews)
  IN  /\ ~crashed
      /\ ~isModalOpen
      /\ InGrid(movie)
      /\ currentMovie' = movie
      /\ isModalOpen' = TRUE
      /\ activeTab' = "details"
      /\ reviews' = IF loaded.ok THEN loaded.v ELSE reviews
      /\ crashed' = (~loaded.ok \/ RenderThrows(loaded.v))
      /\ pending' = Requested(pending, videoApi, id)
      /\ ev' = Event("open", id, JNull, loaded)
      /\ pre' = Snapshot
      /\ UNCHANGED <<storage, rating, comment, errorMessage, listVars,
                     otherTab, horror, trailer, videoApi>>

\* the videos response for a movie arrives: the rest of fetchTrailer
\* (part_001:125-128)
trailerResolved(id) ==
  /\ ~crashed
  /\ id \in pending
  /\ pending' = pending \ {id}
  /\ trailer' = SelectTrailer(videoApi[id].v, trailer)
  /\ ev' = Event("trailer", id, JNull, Returned(JNull))
  /\ pre' = Snapshot
  /\ UNCHANGED <<storage, currentMovie, rating, comment, reviews,
                 isModalOpen, errorMessage, activeTab, crashed, listVars,
                 otherTab, horror, videoApi>>

\* mutant: closing the modal forgets the stored reviews of the movie
closeModalRemovesItem ==
  /\ ~crashed
  /\ isModalOpen
  /\ isModalOpen' = FALSE
  /\ currentMovie' = JNull
  /\ storage' = [k \in DOMAIN storage \ {StorageKey(currentMovie.id)} |->
                   storage[k]]
  /\ ev' = Event("close", 0, JNull, Returned(JNull))
  /\ pre' = Snapshot
  /\ trailer' = JNull
  /\ UNCHANGED <<rating, comment, reviews, errorMessage, activeTab,
                 crashed, listVars, otherTab, horror, pending, videoApi>>

\* mutant: closing the modal leaves the current movie
closeModalKeepsMovie ==
  /\ ~crashed
  /\ isModalOpen
  /\ isModalOpen' = FALSE
  /\ trailer' = JNull
  /\ ev' = Event("close", 0, JNull, Returned(JNull))
  /\ pre' = Snapshot
  /\ UNCHANGED <<storage, currentMovie, rating, comment, reviews,
                 errorMessage, activeTab, crashed, listVars, otherTab,
                 horror, pending, videoApi>>

\* mutant: closing the modal empties the rating and comment fields
closeModalClearsDraft ==
  /\ ~crashed
  /\ isModalOpen
  /\ isModalOpen' = FALSE
  /\ currentMovie' = JNull
  /\ trailer' = JNull
  /\ rating' = JNull
  /\ comment' = <<>>
  /\ ev' = Event("close", 0, JNull, Returned(JNull))
  /\ pre' = Snapshot
  /\ UNCHANGED <<storage, reviews, errorMessage, activeTab, crashed,
                 listVars, otherTab, horror, pending, videoApi>>

\* the close button of the modal (src/unnamed/part_003:20-26)
closeModal ==
  /\ ~crashed
  /\ isModalOpen
  /\ isModalOpen' = FALSE
  /\ currentMovie' = JNull
  /\ trailer' = JNull
  /\ ev' = Event("close", 0, JNull, Returned(JNull))
  /\ pre' = Snapshot
  /\ UNCHANGED <<storage, rating, comment, reviews, errorMessage,
                 activeTab, crashed, listVars, otherTab, horror, pending,
                 videoApi>>

\* the tab buttons of the modal (part_001:256, 266)
setActiveTab(tab) ==
  /\ ~crashed
  /\ isModalOpen
  /\ Truthy(currentMovie)
  /\ activeTab' = tab
  /\ ev' = Event("tab", 0, JNull, Returned(JNull))
  /\ pre' = Snapshot
  /\ UNCHANGED <<storage, currentMovie, rating, comment, reviews,
                 isModalOpen, errorMessage, crashed, listVars, otherTab, horror, trailerVars>>

\* handleSearch (part_001:164-170)
SearchResult(list, text) ==
  LET lowercasedQuery == ToLowerCase(text)
      Matches(movie) == Includes(ToLowerCase(movie.title), lowercasedQuery)
  IN  SelectSeq(list, Matches)

\* SearchBar.handleChange (part_002:11-15) and Home.handleSearch; the
\* search box is covered while the modal is open
handleChange(text) ==
  /\ ~crashed
  /\ ~isModalOpen
  /\ query' = text
  /\ filteredMovies' = SearchResult(movies, text)
  /\ ev' = Event("search", 0, JStr(text), Returned(JNull))
  /\ pre' = Snapshot
  /\ UNCHANGED <<storage, currentMovie, rating, comment, reviews,
                 isModalOpen, errorMessage, activeTab, crashed, sortOption,
                 movies, catalog, otherTab, horror, trailerVars>>

\* whether the review form is on the page (part_001:244-245, 272, 299)
FormShown ==
  ~crashed /\ isModalOpen /\ Truthy(currentMovie) /\ activeTab = "reviews"

\* mutant: reviews are looked up by their content
IndexOfEqual(list, i) == CHOOSE j \in 1..i :
  list[j] = list[i] /\ \A k \in 1..(j - 1) : list[k] # list[i]

\* Array.prototype.indexOf compares with ===, and the objects of the list
\* are pairwise distinct: the one at position i is first found at i
IndexOf(list, i) == i

\* mutant: every option but "newest" puts the highest rating first
CompareHighestOnly(list, option, i, j) ==
  IF option = "newest" THEN IndexOf(list, j) - IndexOf(list, i)
  ELSE Prop(list[j], RatingKey).n - Prop(list[i], RatingKey).n

\* the compare function of the sort, on the reviews at positions i and j
\* (part_001:204-210)
Compare(list, option, i, j) ==
  IF option = "newest" THEN IndexOf(list, j) - IndexOf(list, i)
  ELSE IF option = "highest"
       THEN Prop(list[j], RatingKey).n - Prop(list[i], RatingKey).n
       ELSE Prop(list[i], RatingKey).n - Prop(list[j], RatingKey).n

\* mutant: a sort that puts x before the positions it ties with
RECURSIVE InsertSortedUnstable(_, _, _, _)
InsertSortedUnstable(order, x, list, option) ==
  IF order = <<>> THEN <<x>>
  ELSE LET last == order[Len(order)]
       IN  IF Compare(list, option, last, x) >= 0
           THEN Append(InsertSortedUnstable(SubSeq(order, 1, Len(order) - 1),
                                            x, list, option), last)
           ELSE Append(order, x)

\* Array.prototype.sort is stable: x goes behind the last position that
\* the compare function does not put after it
RECURSIVE InsertSorted(_, _, _, _)
InsertSorted(order, x, list, option) ==
  IF order = <<>> THEN <<x>>
  ELSE LET last == order[Len(order)]
       IN  IF Compare(list, option, last, x) > 0
           THEN Append(InsertSorted(SubSeq(order, 1, Len(order) - 1),
                                    x, list, option), last)
           ELSE Append(order, x)

RECURSIVE SortOrder(_, _, _)
SortOrder(list, option, n) ==
  IF n = 0 THEN <<>>
  ELSE InsertSorted(SortOrder(list, option, n - 1), n, list, option)

\* [...reviews].sort(...) (part_001:203-211)
sortedReviews(list, option) ==
  LET order == SortOrder(list, option, Len(list))
  IN  [k \in 1..Len(list) |-> list[order[k]]]

\* mutant: the sort is applied to the reviews array itself
RenderedInPlace(list, option) ==
  IF list.t = "arr" THEN JArr(sortedReviews(list.a, option)) ELSE list

\* the reviews array after a render: the sort works on a copy of it
Rendered(list, option) == list

\* onChange of the sort dropdown (part_001:336-340), and the render with
\* the new option
setSortOption(option) ==
  /\ FormShown
  /\ sortOption' = option
  /\ reviews' = Rendered(reviews, option)
  /\ ev' = Event("sort", 0, JNull, Returned(JNull))
  /\ pre' = Snapshot
  /\ UNCHANGED <<storage, currentMovie, rating, comment,
                 isModalOpen, errorMessage, activeTab, crashed, movies,
                 filteredMovies, query, catalog, otherTab, horror, trailerVars>>

\* mutant: the upper limit forgotten
OutOfRangeLowOnly(value) == value < Whole(MinRating)

\* rating < 1 || rating > 10 (part_001:98, 154)
OutOfRange(value) == value < Whole(MinRating) \/ value > Whole(MaxRating)

\* the number a relational operator makes of its operand: null is 0
NumberOf(v) == IF v.t = "num" THEN v.n ELSE 0

\* mutant: the message is set for a value out of range and never cleared
handleRatingChangeKeepsError(text) ==
  LET value == ToNumber(text)
  IN  /\ FormShown
      /\ errorMessage' = IF OutOfRange(value) THEN RatingError
                         ELSE errorMessage
      /\ rating' = JNum(value)
      /\ ev' = Event("rating", 0, JStr(text), Returned(JNull))
      /\ pre' = Snapshot
      /\ UNCHANGED <<storage, currentMovie, comment, reviews, isModalOpen,
                     activeTab, crashed, listVars, otherTab, horror,
                     trailerVars>>

handleRatingChange(text) ==
  LET value == ToNumber(text)
  IN  /\ FormShown
      /\ errorMessage' = IF OutOfRange(value) THEN RatingError ELSE ""
      /\ rating' = JNum(value)
      /\ ev' = Event("rating", 0, JStr(text), Returned(JNull))
      /\ pre' = Snapshot
      /\ UNCHANGED <<storage, currentMovie, comment, reviews, isModalOpen,
                     activeTab, crashed, listVars, otherTab, horror, trailerVars>>

\* onChange of the comment field (part_001:321)
setComment(text) ==
  /\ FormShown
  /\ comment' = text
  /\ ev' = Event("comment", 0, JStr(text), Returned(JNull))
  /\ pre' = Snapshot
  /\ UNCHANGED <<storage, currentMovie, rating, reviews, isModalOpen,
                 errorMessage, activeTab, crashed, listVars, otherTab, horror, trailerVars>>

\* mutant: the test of rating !== null forgotten
SubmitEnteredNullRating == Truthy(currentMovie) /\ Truthy(JStr(comment))

\* mutant: the test of the comment forgotten
SubmitEnteredNoComment == Truthy(currentMovie) /\ rating # JNull

\* whether handleReviewSubmit enters its outer if (part_001:97)
SubmitEntered ==
  Truthy(currentMovie) /\ rating # JNull /\ Truthy(JStr(comment))

\* whether handleReviewSubmit reaches the append (part_001:102)
SubmitAccepted == SubmitEntered /\ ~OutOfRange(NumberOf(rating))

\* mutant: the new review put first
PrependReview(list, newReview) == JArr(<<newReview>> \o Spread(list))

\* mutant: the new review is appended to the list localStorage holds
AppendToStored(list, newReview) ==
  JArr(Append(Spread(
    loadReviewsFromLocalStorage(storage, currentMovie.id).v), newReview))

\* mutant: the list saved holds the new review alone
OnlyNewReview(list, newReview) == JArr(<<newReview>>)

\* [...reviews, newReview] (part_001:103)
AppendReview(list, newReview) == JArr(Append(Spread(list), newReview))

\* mutant: setRating(null) forgotten after the save
handleReviewSubmitKeepsRating ==
  LET newReview == Review(NumberOf(rating), comment)
      updatedReviews == AppendReview(reviews, newReview)
  IN  /\ FormShown
      /\ SubmitAccepted => StoredCount(storage, DOMAIN storage) < MaxReviews
      /\ ev' = Event("submit", 0, JNull, Returned(JNull))
      /\ pre' = Snapshot
      /\ IF SubmitAccepted
         THEN /\ reviews' = updatedReviews
              /\ storage' = saveReviewsToLocalStorage(
                               storage, currentMovie.id, updatedReviews)
              /\ comment' = <<>>
              /\ errorMessage' = ""
              /\ UNCHANGED rating
         ELSE /\ errorMessage' =
                   IF SubmitEntered THEN RatingError ELSE errorMessage
              /\ UNCHANGED <<storage, rating, comment, reviews>>
      /\ UNCHANGED <<currentMovie, isModalOpen, activeTab, crashed, listVars, otherTab, horror, trailerVars>>

handleReviewSubmit ==
  LET newReview == Review(NumberOf(rating), comment)
      updatedReviews == AppendReview(reviews, newReview)
  IN  /\ FormShown
      /\ SubmitAccepted => StoredCount(storage, DOMAIN storage) < MaxReviews
      /\ ev' = Event("submit", 0, JNull, Returned(JNull))
      /\ pre' = Snapshot
      /\ IF SubmitAccepted
         THEN /\ reviews' = updatedReviews
              /\ storage' = saveReviewsToLocalStorage(
                               storage, currentMovie.id, updatedReviews)
              /\ rating' = JNull
              /\ comment' = <<>>
              /\ errorMessage' = ""
         ELSE /\ errorMessage' =
                   IF SubmitEntered THEN RatingError ELSE errorMessage
              /\ UNCHANGED <<storage, rating, comment, reviews>>
      /\ UNCHANGED <<currentMovie, isModalOpen, activeTab, crashed, listVars, otherTab, horror, trailerVars>>

Next ==
  \/ fetchMoviesResolved
  \/ \E id \in MovieIds : openModal(id)
  \/ closeModal
  \/ \E tab \in {"details", "reviews"} : setActiveTab(tab)
  \/ \E text \in RatingTexts : handleRatingChange(text)
  \/ \E text \in CommentTexts : setComment(text)
  \/ handleReviewSubmit

Spec == Init /\ [][Next]_vars

\* the user turns to the other tab of the browser: both tabs run the same
\* page over the one localStorage, and neither listens to storage events
switchTab ==
  /\ otherTab' = PageState
  /\ currentMovie' = otherTab.currentMovie
  /\ rating' = otherTab.rating
  /\ comment' = otherTab.comment
  /\ reviews' = otherTab.reviews
  /\ isModalOpen' = otherTab.isModalOpen
  /\ errorMessage' = otherTab.errorMessage
  /\ activeTab' = otherTab.activeTab
  /\ crashed' = otherTab.crashed
  /\ sortOption' = otherTab.sortOption
  /\ movies' = otherTab.movies
  /\ filteredMovies' = otherTab.filteredMovies
  /\ query' = otherTab.query
  /\ catalog' = otherTab.catalog
  /\ trailer' = otherTab.trailer
  /\ pending' = otherTab.pending
  /\ ev' = Event("switch", 0, JNull, Returned(JNull))
  /\ pre' = Snapshot
  /\ UNCHANGED <<storage, horror, videoApi>>

\* two tabs of the browser, over the rating and comment texts of two
\* reviews that a submit accepts
TabRatingTexts == { <<"1">>, <<"1", "0">> }

TabCommentTexts == { <<"a">> }

\* the longest list of reviews a tab holds before a submit
MaxTabReviews == 1

NextTabs ==
  \/ fetchMoviesResolved
  \/ \E id \in MovieIds : openModal(id)
  \/ setActiveTab("reviews")
  \/ \E text \in TabRatingTexts : handleRatingChange(text)
  \/ \E text \in TabCommentTexts : setComment(text)
  \/ /\ SubmitAccepted => Len(Spread(reviews)) < MaxTabReviews
     /\ handleReviewSubmit
  \/ switchTab

SpecTabs == Init /\ [][NextTabs]_vars

\* ------------------------------------------------------------------------
\* renderStars (part_001:176-199)

\* the number of glyph slots of a rating (part_001:180)
StarSlots == 10

Max(a, b) == IF a >= b THEN a ELSE b

\* Array(n).fill(0).map(...) of one glyph
Glyphs(n, glyph) == [i \in 1..n |-> glyph]

\* mutant: at most ten full stars
fullStarsCapped(r) ==
  IF r \div Whole(1) <= StarSlots THEN r \div Whole(1) ELSE StarSlots

\* Math.floor(rating)
fullStars(r) == r \div Whole(1)

\* mutant: a half star only above one half
hasHalfStarAbove(r) == (r % Whole(1)) * 2 > Whole(1)

\* rating % 1 >= 0.5
hasHalfStar(r) == (r % Whole(1)) * 2 >= Whole(1)

\* Math.max(0, 10 - fullStars - (hasHalfStar ? 1 : 0))
emptyStars(r) ==
  Max(0, StarSlots - fullStars(r) - (IF hasHalfStar(r) THEN 1 ELSE 0))

renderStars(r) ==
  Glyphs(fullStars(r), "full")
    \o (IF hasHalfStar(r) THEN <<"half">> ELSE <<>>)
    \o Glyphs(emptyStars(r), "empty")

\* the ratings handed to renderStars: 0, 0.1, ... up to MaxStarRating tenths
MaxStarRating == 125

StarRatings == 0..MaxStarRating

\* the stars of one review are rendered (part_001:357)
renderStarsCall(r) ==
  /\ ev' = Event("stars", 0, JNum(r), Returned(renderStars(r)))
  /\ pre' = Snapshot
  /\ UNCHANGED <<storage, currentMovie, rating, comment, reviews,
                 isModalOpen, errorMessage, activeTab, crashed, listVars,
                 otherTab, horror, trailerVars>>

NextStars == \E r \in StarRatings : renderStarsCall(r)

SpecStars == Init /\ [][NextStars]_vars

\* the review list of the modal, over stores that hold lists of earlier
\* sessions: reviews of two ratings and two comments, so that lists have
\* reviews of equal rating and reviews of equal content
MaxSortLen == 3

SortKinds == { Review(r, c) : r \in {10, 75}, c \in { <<"a">>, <<"b">> } }

SortLists ==
  { JArr(a) : a \in UNION { [1..n -> SortKinds] : n \in 0..MaxSortLen } }

SortRatingTexts == { <<"1">> }

SortCommentTexts == { <<"a">> }

InitSort ==
  /\ \E list \in SortLists :
       storage = saveReviewsToLocalStorage(<< >>, 1, list)
  /\ InitPage

NextSort ==
  \/ fetchMoviesResolved
  \/ \E id \in MovieIds : openModal(id)
  \/ setActiveTab("reviews")
  \/ \E option \in SortOptions : setSortOption(option)
  \/ \E text \in SortRatingTexts : handleRatingChange(text)
  \/ \E text \in SortCommentTexts : setComment(text)
  \/ handleReviewSubmit

SpecSort == InitSort /\ [][NextSort]_vars

\* ------------------------------------------------------------------------
\* The horror page (Horror, src/app/horror/page.tsx:51), run beside the
\* genre component: each event the genre component handled is given to the
\* horror page next, which works on its own localStorage

\* the response of the horror catalog query (page.tsx:63-81)
fetchHorrorMovies(h) == [h EXCEPT !.movies = Results]

\* the movies of the horror grid (page.tsx:180)
HorrorInGrid(h, movie) == \E i \in 1..Len(h.movies) : h.movies[i] = movie

\* the render of the review list (page.tsx:266-277): reviews.length, and
\* reviews.map when the length is not 0
HorrorRenderThrows(list) ==
  ~(list.t = "arr" \/ (list.t = "str" /\ list.s = <<>>))

\* openModal (page.tsx:139-143) with the effect on currentMovie
\* (page.tsx:86-90)
horrorOpenModal(h, id) ==
  LET movie == Movie(id)
      loaded == IF movie = h.currentMovie \/ ~Truthy(movie)
                THEN Returned(h.reviews)
                ELSE loadReviewsFromLocalStorage(h.storage, movie.id)
  IN  [h EXCEPT !.currentMovie = movie,
                !.isModalOpen = TRUE,
                !.reviews = IF loaded.ok THEN loaded.v ELSE @,
                !.crashed = ~loaded.ok \/ HorrorRenderThrows(loaded.v)]

\* closeModal (page.tsx:148-152)
horrorCloseModal(h) ==
  [h EXCEPT !.isModalOpen = FALSE, !.currentMovie = JNull]

\* whether the form is on the horror page (page.tsx:205-206, 233)
HorrorFormShown(h) == ~h.crashed /\ h.isModalOpen /\ Truthy(h.currentMovie)

\* mutant: the lower limit forgotten
HorrorOutOfRangeAbove(value) == value > Whole(MaxRating)

\* value < 1 || value > 10 (page.tsx:97, 160)
HorrorOutOfRange(value) ==
  value < Whole(MinRating) \/ value > Whole(MaxRating)

\* handleRatingChange (page.tsx:158-166)
horrorHandleRatingChange(h, text) ==
  LET value == ToNumber(text)
  IN  [h EXCEPT !.errorMessage =
                   IF HorrorOutOfRange(value) THEN RatingError ELSE "",
                !.rating = JNum(value)]

\* onChange of the comment field (page.tsx:254)
horrorSetComment(h, text) == [h EXCEPT !.comment = text]

\* handleReviewSubmit (page.tsx:95-109)
horrorHandleReviewSubmit(h) ==
  IF Truthy(h.currentMovie) /\ h.rating # JNull /\ Truthy(JStr(h.comment))
  THEN IF HorrorOutOfRange(NumberOf(h.rating))
       THEN [h EXCEPT !.errorMessage = RatingError]
       ELSE LET newReview == Review(h.rating.n, h.comment)
                updatedReviews ==
                  JArr(Append(Spread(h.reviews), newReview))
            IN  [h EXCEPT !.reviews = updatedReviews,
                          !.storage = saveReviewsToLocalStorage(
                                        h.storage, h.currentMovie.id,
                                        updatedReviews),
                          !.rating = JNull,
                          !.comment = <<>>,
                          !.errorMessage = ""]
  ELSE h

\* the handler of the horror page for an event of the genre component;
\* the horror page has no tabs
HorrorHandles(h, event) ==
  CASE event.op = "open" -> horrorOpenModal(h, event.id)
    [] event.op = "close" -> horrorCloseModal(h)
    [] event.op = "rating" -> horrorHandleRatingChange(h, event.arg.s)
    [] event.op = "comment" -> horrorSetComment(h, event.arg.s)
    [] event.op = "submit" -> horrorHandleReviewSubmit(h)
    [] OTHER -> h

\* the horror page has been given every event so far
InStep == horror.handled = <<ev, pre>>

\* the horror page is given the last event
horrorFollows ==
  /\ ~InStep
  /\ horror' = [HorrorHandles(horror, ev) EXCEPT !.handled = <<ev, pre>>]
  /\ UNCHANGED <<storage, currentMovie, rating, comment, reviews,
                 isModalOpen, errorMessage, activeTab, crashed, listVars,
                 otherTab, trailerVars, ev, pre>>

\* the response of the horror page's catalog query arrives
fetchHorrorMoviesResolved ==
  /\ InStep
  /\ horror.movies = <<>>
  /\ horror' = fetchHorrorMovies(horror)
  /\ UNCHANGED <<storage, currentMovie, rating, comment, reviews,
                 isModalOpen, errorMessage, activeTab, crashed, listVars,
                 otherTab, trailerVars, ev, pre>>

\* the two pages start from the same localStorage: an empty one, or one of
\* an earlier session
HorrorRatingTexts == { <<>>, <<"1">>, <<"7", ".", "5">>, <<"1", "1">> }

InitHorror ==
  /\ \E list \in { JArr(<<>>), JArr(<<Review(100, <<"b">>)>>) } :
       storage = saveReviewsToLocalStorage(<< >>, 1, list)
  /\ InitHome
  /\ horror = InitialHorror(storage, ev, pre)
  /\ videoApi = NoVideos

\* an event is one both pages offer: the movie is in both grids, the modal
\* is open or closed on both, the form is on both
NextHorror ==
  \/ InStep /\ fetchMoviesResolved
  \/ fetchHorrorMoviesResolved
  \/ \E id \in MovieIds :
       /\ InStep /\ HorrorInGrid(horror, Movie(id)) /\ ~horror.isModalOpen
       /\ openModal(id)
  \/ InStep /\ horror.isModalOpen /\ closeModal
  \/ \E tab \in {"details", "reviews"} : InStep /\ setActiveTab(tab)
  \/ \E text \in HorrorRatingTexts :
       InStep /\ HorrorFormShown(horror) /\ handleRatingChange(text)
  \/ \E text \in CommentTexts :
       InStep /\ HorrorFormShown(horror) /\ setComment(text)
  \/ InStep /\ HorrorFormShown(horror) /\ handleReviewSubmit
  \/ horrorFollows

SpecHorror == InitHorror /\ [][NextHorror]_vars

\* ------------------------------------------------------------------------
\* The modal and its trailer, over what the videos query can answer

VideoKey(id, c) == NatToChars(id) \o <<c>>

\* response.data.results for a movie: its videos on YouTube and elsewhere
VideoLists(id) ==
  LET y1 == Video(VideoKey(id, "a"), "YouTube")
      y2 == Video(VideoKey(id, "b"), "YouTube")
      o == Video(VideoKey(id, "c"), "Vimeo")
  IN  { <<>>, <<o>>, <<y1>>, <<o, y1>>, <<y1, y2>>, <<y1, o, y2>> }

VideoAnswers ==
  {Refused} \cup
    { Answered(l) : l \in UNION { VideoLists(id) : id \in MovieIds } }

VideoApis ==
  { api \in [MovieIds -> VideoAnswers] :
      \A id \in MovieIds : api[id].ok => api[id].v \in VideoLists(id) }

InitTrailer ==
  /\ storage = << >>
  /\ InitHome
  /\ horror = InitialHorror(<< >>, ev, JNull)
  /\ videoApi \in VideoApis

NextTrailer ==
  \/ fetchMoviesResolved
  \/ \E id \in MovieIds : openModal(id)
  \/ closeModal
  \/ \E id \in MovieIds : trailerResolved(id)

SpecTrailer == InitTrailer /\ [][NextTrailer]_vars

\* ------------------------------------------------------------------------
\* A draft carried from one movie to another: the user types in the modal
\* of the first movie of the catalog only, and may submit in any modal;
\* the videos query answers with two YouTube videos for each movie
DraftMovie == Results[1]

DraftRatingTexts == { <<"7">>, <<"1", "1">> }

DraftCommentTexts == { <<"a">> }

InitDraft ==
  /\ storage = << >>
  /\ InitHome
  /\ horror = InitialHorror(<< >>, ev, JNull)
  /\ videoApi = [id \in MovieIds |->
                   Answered(<<Video(VideoKey(id, "a"), "YouTube"),
                              Video(VideoKey(id, "b"), "YouTube")>>)]

NextDraft ==
  \/ fetchMoviesResolved
  \/ \E id \in MovieIds : openModal(id)
  \/ \E id \in MovieIds : trailerResolved(id)
  \/ closeModal
  \/ \E tab \in {"details", "reviews"} : setActiveTab(tab)
  \/ \E option \in SortOptions : setSortOption(option)
  \/ \E text \in DraftRatingTexts :
       currentMovie = DraftMovie /\ handleRatingChange(text)
  \/ \E text \in DraftCommentTexts :
       currentMovie = DraftMovie /\ setComment(text)
  \/ handleReviewSubmit

SpecDraft == InitDraft /\ [][NextDraft]_vars

\* the whole page: the review form with the search box and the sort
\* dropdown, over the rating texts that a submit treats differently
PageRatingTexts == { <<>>, <<"1">>, <<"1", "1">> }

NextPage ==
  \/ fetchMoviesResolved
  \/ \E text \in QueryTexts : handleChange(text)
  \/ \E option \in SortOptions : setSortOption(option)
  \/ \E id \in MovieIds : openModal(id)
  \/ closeModal
  \/ \E tab \in {"details", "reviews"} : setActiveTab(tab)
  \/ \E text \in PageRatingTexts : handleRatingChange(text)
  \/ \E text \in CommentTexts : setComment(text)
  \/ handleReviewSubmit

SpecPage == Init /\ [][NextPage]_vars

\* ------------------------------------------------------------------------
\* The review store on its own: load and save called on stores the page
\* did not necessarily write

\* every localStorage over the movies' keys with texts from the set given
Stores(texts) ==
  UNION { [keys -> texts] : keys \in SUBSET { StorageKey(id) : id \in MovieIds } }

\* the lists of at most MaxLen reviews
ReviewLists ==
  LET kinds == { Review(r, c) : r \in SavedRatings, c \in SavedComments }
  IN  { JArr(a) : a \in UNION { [1..n -> kinds] : n \in 0..MaxLen } }

storeLoad(id) ==
  /\ ev' = Event("load", id, JNull, loadReviewsFromLocalStorage(storage, id))
  /\ pre' = Snapshot
  /\ UNCHANGED <<storage, currentMovie, rating, comment, reviews,
                 isModalOpen, errorMessage, activeTab, crashed, listVars, otherTab, horror, trailerVars>>

\* one save from each initial store
storeSave(id, list) ==
  /\ ev.op = "init"
  /\ storage' = saveReviewsToLocalStorage(storage, id, list)
  /\ ev' = Event("save", id, list, Returned(JNull))
  /\ pre' = Snapshot
  /\ UNCHANGED <<currentMovie, rating, comment, reviews, isModalOpen,
                 errorMessage, activeTab, crashed, listVars, otherTab, horror, trailerVars>>

\* loads, and the page opening movies, over stores of any texts
InitStored ==
  /\ storage \in Stores(StoredTexts)
  /\ InitPage

NextStored ==
  \/ fetchMoviesResolved
  \/ \E id \in MovieIds : storeLoad(id)
  \/ \E id \in MovieIds : openModal(id)
  \/ closeModal

SpecStored == InitStored /\ [][NextStored]_vars

\* a save, and the load after it
InitSave ==
  /\ storage \in Stores({ <<"[">>, <<"[", "]">>, Stringify(JArr(<<Review(70, <<"b">>)>>)) })
  /\ InitPage

NextSave ==
  \/ \E id \in MovieIds, list \in ReviewLists : storeSave(id, list)
  \/ \E id \in MovieIds : storeLoad(id)

SpecSave == InitSave /\ [][NextSave]_vars

\* ------------------------------------------------------------------------
\* Properties of the review form (checked under Spec)

InRange(r) == r.t = "num" /\ r.n >= 10 /\ r.n <= 100

\* the last call was a submit, made with a movie open
Submitted == ev.op = "submit" /\ pre.currentMovie # JNull

\* C1: a submit with a rating in [1,10] and a non-empty comment, movie m
\* open and in-memory list C, makes the in-memory list and the list loaded
\* from storage for m both C ++ [r].
C1_SubmitAppends ==
  (Submitted /\ InRange(pre.rating) /\ pre.comment # <<>>) =>
    LET r == Review(pre.rating.n, pre.comment)
        m == pre.currentMovie.id
    IN  /\ reviews = JArr(pre.reviews.a \o <<r>>)
        /\ loadReviewsFromLocalStorage(storage, m) = Returned(reviews)

C1_Witness ==
  /\ Submitted /\ InRange(pre.rating) /\ pre.comment # <<>>
  /\ Len(pre.reviews.a) >= 1
  /\ pre.reviews.a[1] # Review(pre.rating.n, pre.comment)

\* C2: a submit whose rating is non-null and outside [1,10] changes neither
\* the stored nor the in-memory list and leaves the error message the
\* "Rating must be between 1 and 10." text, whatever the comment is.
C2_OutOfRangeRejected ==
  (Submitted /\ pre.rating # JNull /\ ~InRange(pre.rating)) =>
    /\ storage = pre.storage
    /\ reviews = pre.reviews
    /\ errorMessage = "Rating must be between 1 and 10."

C2_Witness ==
  /\ Submitted /\ pre.rating = JNum(110) /\ pre.comment # <<>>
  /\ pre.reviews # JArr(<<>>)

\* C2, the empty comment: the case the handler leaves at once
C2_WitnessEmptyComment ==
  Submitted /\ pre.rating = JNum(0) /\ pre.comment = <<>>

\* C3 as claimed: a submit while the rating is null sets the rating error
\* and mutates neither list.
C3_NullRatingSetsError ==
  (Submitted /\ pre.rating = JNull) =>
    /\ errorMessage = "Rating must be between 1 and 10."
    /\ storage = pre.storage
    /\ reviews = pre.reviews

\* C3 as amended: a submit while the rating is null is ignored silently:
\* neither list changes, the fields keep their values and the error message
\* stays empty.
C3_NullRatingIgnored ==
  (Submitted /\ pre.rating = JNull) =>
    /\ storage = pre.storage
    /\ reviews = pre.reviews
    /\ rating = JNull
    /\ comment = pre.comment
    /\ errorMessage = ""

C3_Witness ==
  /\ Submitted /\ pre.rating = JNull /\ pre.comment # <<>>
  /\ pre.op = "comment"

\* C4: a submit with a rating in [1,10] and an empty comment changes
\* nothing: stored list, in-memory list, rating and comment stay, and the
\* error message is empty.
C4_EmptyCommentNoOp ==
  (Submitted /\ InRange(pre.rating) /\ pre.comment = <<>>) =>
    /\ storage = pre.storage
    /\ reviews = pre.reviews
    /\ rating = pre.rating
    /\ comment = pre.comment
    /\ errorMessage = ""

C4_Witness ==
  Submitted /\ InRange(pre.rating) /\ pre.comment = <<>>

\* a submit that appended
SubmitSucceeded == Submitted /\ storage # pre.storage

\* C5: after a successful submit the rating is null, the comment is empty
\* and the error message is empty; a submit made right after it appends
\* nothing.
C5_SuccessClearsForm ==
  /\ SubmitSucceeded =>
       rating = JNull /\ comment = <<>> /\ errorMessage = ""
  /\ (Submitted /\ pre.op = "submit" /\ pre.wrote) =>
       storage = pre.storage /\ reviews = pre.reviews

C5_Witness ==
  /\ Submitted /\ pre.op = "submit" /\ pre.wrote
  /\ pre.rating = JNull /\ pre.comment = <<>>
  /\ reviews # JArr(<<>>)

\* every review of every entry of a store
IsStoredReview(v) ==
  /\ v.t = "obj"
  /\ Prop(v, RatingKey).t = "num"
  /\ Prop(v, CommentKey).t = "str"

StoredLists(store) == { JsonParse(store[k]) : k \in DOMAIN store }

\* C10: from empty storage, every stored review has an integer rating in
\* [1,10] and a non-empty comment.
C10_StoredReviewsWellFormed ==
  \A p \in StoredLists(storage) :
    /\ p.ok /\ p.v.t = "arr"
    /\ \A i \in 1..Len(p.v.a) :
         /\ IsStoredReview(p.v.a[i])
         /\ InRange(Prop(p.v.a[i], RatingKey))
         /\ Prop(p.v.a[i], RatingKey).n % 10 = 0
         /\ Prop(p.v.a[i], CommentKey).s # <<>>

\* ------------------------------------------------------------------------
\* Properties of the review store (checked under SpecStored and SpecSave)

\* a list of reviews
IsReviewList(v) ==
  v.t = "arr" /\ \A i \in 1..Len(v.a) : IsStoredReview(v.a[i])

\* the entry of movie id holds a text that is not a list of reviews
Malformed(store, id) ==
  /\ StorageKey(id) \in DOMAIN store
  /\ \/ ~JsonParse(store[StorageKey(id)]).ok
     \/ ~IsReviewList(JsonParse(store[StorageKey(id)]).v)

\* C6: whatever text is stored for a movie, load does not raise and answers
\* a list of reviews, the empty one when the text is malformed; opening
\* such a movie leaves the page running with an empty list.
C6_LoadNeverRaises ==
  /\ ev.op = "load" =>
       /\ ev.ret.ok
       /\ IsReviewList(ev.ret.v)
       /\ Malformed(pre.storage, ev.id) => ev.ret.v = JArr(<<>>)
  /\ (ev.op = "open" /\ Malformed(pre.storage, ev.id)) =>
       ~crashed /\ reviews = JArr(<<>>)

\* C7: for a movie with no entry, load answers the empty list and creates
\* no entry.
C7_AbsentLoadsEmpty ==
  (ev.op = "load" /\ StorageKey(ev.id) \notin DOMAIN pre.storage) =>
    /\ ev.ret = Returned(JArr(<<>>))
    /\ storage = pre.storage
    /\ StorageKey(ev.id) \notin DOMAIN storage

C7_Witness ==
  /\ ev.op = "load" /\ StorageKey(ev.id) \notin DOMAIN pre.storage
  /\ pre.storage # << >>

\* C8: load(id) right after save(id, R) answers exactly R.
C8_RoundTrip ==
  ev.op = "save" =>
    loadReviewsFromLocalStorage(storage, ev.id) = Returned(ev.arg)

C8_Witness ==
  /\ ev.op = "save"
  /\ Len(ev.arg.a) = 2
  /\ ev.arg.a[1] # ev.arg.a[2]
  /\ Prop(ev.arg.a[1], CommentKey) = JStr(<<"a", "\"">>)
  /\ StorageKey(ev.id) \in DOMAIN pre.storage

\* C9: save(id, R) replaces the whole text stored for id and leaves the
\* entry of every other movie as it was; two movies never share a key.
C9_SaveOverwritesOwnKeyOnly ==
  ev.op = "save" =>
    /\ GetItem(storage, StorageKey(ev.id)) = JStr(Stringify(ev.arg))
    /\ \A other \in MovieIds \ {ev.id} :
         /\ StorageKey(other) # StorageKey(ev.id)
         /\ GetItem(storage, StorageKey(other))
              = GetItem(pre.storage, StorageKey(other))
         /\ loadReviewsFromLocalStorage(storage, other)
              = loadReviewsFromLocalStorage(pre.storage, other)

C9_Witness ==
  /\ ev.op = "save"
  /\ DOMAIN pre.storage = { StorageKey(id) : id \in MovieIds }
  /\ pre.storage[StorageKey(ev.id)] # <<"[">>
  /\ storage[StorageKey(ev.id)] # pre.storage[StorageKey(ev.id)]

\* C11: storage changes only in a submit made with a movie open, a rating
\* in [1,10] and a non-empty comment; opening and closing the modal, the
\* catalog response, rating and comment edits, the sort option, the tabs,
\* the search box and rejected submits leave it as it was, and no call
\* removes an entry.
C11_StorageFrame ==
  /\ storage # pre.storage =>
       Submitted /\ InRange(pre.rating) /\ pre.comment # <<>>
  /\ ev.op \in {"movies", "open", "close", "tab", "search", "sort",
                "rating", "comment"} => storage = pre.storage
  /\ DOMAIN pre.storage \subseteq DOMAIN storage

C11_Witness ==
  /\ ev.op \in {"close", "search", "sort"}
  /\ pre.op \in {"close", "search", "sort"} \ {ev.op}
  /\ DOMAIN storage = { StorageKey(id) : id \in MovieIds }

\* the reviews of a list, as a set
ReviewsOf(list) == { list.a[i] : i \in 1..Len(list.a) }

\* C12: when two tabs hold the same movie and both submit an accepted
\* review, the stored list is what the tab that saved last wrote, its own
\* in-memory list with its new review at the end; a review that only the
\* other tab holds is not in it.
C12_LastWriteWins ==
  (Submitted /\ InRange(pre.rating) /\ pre.comment # <<>>) =>
    LET r == Review(pre.rating.n, pre.comment)
        m == pre.currentMovie.id
        written == JArr(pre.reviews.a \o <<r>>)
        stored == loadReviewsFromLocalStorage(storage, m)
    IN  /\ stored = Returned(written)
        /\ otherTab.currentMovie = pre.currentMovie =>
             \A x \in ReviewsOf(otherTab.reviews) \ ReviewsOf(written) :
               x \notin ReviewsOf(stored.v)

C12_Witness ==
  /\ Submitted /\ InRange(pre.rating) /\ pre.comment # <<>>
  /\ otherTab.currentMovie = pre.currentMovie
  /\ pre.reviews = JArr(<<>>)
  /\ Len(otherTab.reviews.a) = 1
  /\ otherTab.reviews.a[1] # Review(pre.rating.n, pre.comment)
  /\ loadReviewsFromLocalStorage(pre.storage, pre.currentMovie.id)
       = Returned(otherTab.reviews)

\* the list the reviews tab displays, and the positions its reviews have
\* in the in-memory list
Displayed == sortedReviews(reviews.a, sortOption)

DisplayOrder == SortOrder(reviews.a, sortOption, Len(reviews.a))

\* how many times x occurs in a list
Count(list, x) == Cardinality({ i \in 1..Len(list) : list[i] = x })

RatingAt(list, i) == Prop(list[i], RatingKey).n

\* C13: sorting is non-destructive: the displayed list is a permutation of
\* the in-memory list, choosing a sort option changes neither the in-memory
\* nor the stored list, and a submit writes the in-memory list in its
\* order of insertion with the new review at the end, whatever the option.
C13_SortNonDestructive ==
  /\ Len(Displayed) = Len(reviews.a)
  /\ \A x \in ReviewsOf(reviews) \cup ReviewsOf(JArr(Displayed)) :
       Count(Displayed, x) = Count(reviews.a, x)
  /\ ev.op = "sort" => reviews = pre.reviews /\ storage = pre.storage
  /\ (Submitted /\ InRange(pre.rating) /\ pre.comment # <<>>) =>
       loadReviewsFromLocalStorage(storage, pre.currentMovie.id) =
         Returned(JArr(pre.reviews.a
                         \o <<Review(pre.rating.n, pre.comment)>>))

C13_Witness ==
  /\ Submitted /\ InRange(pre.rating) /\ pre.comment # <<>>
  /\ pre.op = "sort"
  /\ sortOption # "newest"
  /\ Displayed # reviews.a

C13_WitnessSelect ==
  /\ ev.op = "sort"
  /\ Len(reviews.a) = MaxSortLen
  /\ Displayed # reviews.a

\* C14: with the option "newest" the displayed list is the in-memory list
\* in exactly the reverse order, the reviews of equal content included.
C14_NewestReverses ==
  sortOption = "newest" =>
    \A k \in 1..Len(reviews.a) :
      /\ DisplayOrder[k] = Len(reviews.a) + 1 - k
      /\ Displayed[k] = reviews.a[Len(reviews.a) + 1 - k]

C14_Witness ==
  /\ FormShown /\ ev.op = "sort" /\ pre.op = "sort"
  /\ sortOption = "newest"
  /\ Len(reviews.a) = 3
  /\ reviews.a[1] = reviews.a[3]
  /\ reviews.a[1] # reviews.a[2]

\* the positions of list in an order of the rating that After allows, the
\* reviews of equal rating in their order in list
StableBy(order, list, After(_, _)) ==
  /\ Len(order) = Len(list)
  /\ { order[k] : k \in 1..Len(order) } = 1..Len(list)
  /\ \A k, l \in 1..Len(order) : k < l =>
       /\ After(RatingAt(list, order[k]), RatingAt(list, order[l]))
       /\ RatingAt(list, order[k]) = RatingAt(list, order[l]) =>
            order[k] < order[l]

NotBelow(a, b) == a >= b

NotAbove(a, b) == a <= b

\* C15: with the option "highest" the ratings of the displayed list never
\* increase and reviews of equal rating keep their order of insertion,
\* whatever option was selected before.
C15_HighestStable ==
  sortOption = "highest" =>
    /\ StableBy(DisplayOrder, reviews.a, NotBelow)
    /\ ev.op = "sort" => StableBy(DisplayOrder, pre.reviews.a, NotBelow)

C15_Witness ==
  /\ FormShown /\ ev.op = "sort" /\ pre.op = "sort"
  /\ sortOption = "highest"
  /\ Len(reviews.a) = 3
  /\ RatingAt(reviews.a, 1) < RatingAt(reviews.a, 2)
  /\ RatingAt(reviews.a, 2) = RatingAt(reviews.a, 3)
  /\ reviews.a[2] # reviews.a[3]
  /\ DisplayOrder = <<2, 3, 1>>

\* C16: with the option "lowest" the ratings of the displayed list never
\* decrease and reviews of equal rating keep their order of insertion.
C16_LowestStable ==
  sortOption = "lowest" =>
    /\ StableBy(DisplayOrder, reviews.a, NotAbove)
    /\ ev.op = "sort" => StableBy(DisplayOrder, pre.reviews.a, NotAbove)

C16_Witness ==
  /\ FormShown /\ ev.op = "sort"
  /\ sortOption = "lowest"
  /\ Len(reviews.a) = 3
  /\ RatingAt(reviews.a, 1) > RatingAt(reviews.a, 2)
  /\ RatingAt(reviews.a, 1) = RatingAt(reviews.a, 3)
  /\ reviews.a[1] # reviews.a[3]
  /\ DisplayOrder = <<2, 1, 3>>

\* the glyphs of the last renderStars call
StarsOf(glyph) == { i \in 1..Len(ev.ret.v) : ev.ret.v[i] = glyph }

\* full glyphs come first, then the half glyph, then the empty ones
StarsInOrder ==
  \A i \in StarsOf("full") : \A j \in StarsOf("half") \cup StarsOf("empty") :
    /\ i < j
    /\ j \in StarsOf("empty") => \A h \in StarsOf("half") : h < j

\* C17: for a rating in [0,10] that is a whole number or a half step,
\* renderStars gives floor(rating) full glyphs, then one half glyph exactly
\* when the fractional part is at least 0.5, then empty glyphs, 10 glyphs
\* in all.
C17_TenStarsInRange ==
  (ev.op = "stars" /\ ev.arg.n <= Whole(MaxRating)
     /\ ev.arg.n % (Whole(1) \div 2) = 0) =>
    /\ Cardinality(StarsOf("full")) = ev.arg.n \div Whole(1)
    /\ Cardinality(StarsOf("half")) =
         (IF ev.arg.n % Whole(1) = Whole(1) \div 2 THEN 1 ELSE 0)
    /\ Len(ev.ret.v) = StarSlots
    /\ StarsOf("full") \cup StarsOf("half") \cup StarsOf("empty")
         = 1..StarSlots
    /\ StarsInOrder

C17_Witness ==
  /\ ev.op = "stars"
  /\ ev.arg.n = 75
  /\ ev.ret.v = <<"full", "full", "full", "full", "full", "full", "full",
                  "half", "empty", "empty">>

\* C18 as stated: above 10 there is no half glyph and no empty glyph, and
\* floor(rating) full glyphs.
C18_NoHalfAboveTen ==
  (ev.op = "stars" /\ ev.arg.n > Whole(MaxRating)) =>
    /\ StarsOf("half") = {}
    /\ StarsOf("empty") = {}
    /\ Cardinality(StarsOf("full")) = ev.arg.n \div Whole(1)

\* C18: above 10 renderStars gives floor(rating) full glyphs, more than
\* ten when the rating has them, no empty glyph, and still one half glyph
\* when the fractional part is at least 0.5.
C18_FullStarsUncapped ==
  (ev.op = "stars" /\ ev.arg.n > Whole(MaxRating)) =>
    /\ Cardinality(StarsOf("full")) = ev.arg.n \div Whole(1)
    /\ StarsOf("empty") = {}
    /\ Cardinality(StarsOf("half")) =
         (IF (ev.arg.n % Whole(1)) * 2 >= Whole(1) THEN 1 ELSE 0)
    /\ StarsInOrder

C18_Witness ==
  /\ ev.op = "stars"
  /\ ev.arg.n = 115
  /\ Len(ev.ret.v) = 12
  /\ ev.ret.v[12] = "half"

\* C19: the horror page and the genre component, started from the same
\* localStorage and given the same open, close, rating, comment and submit
\* events, have after every event the same stored lists, the same
\* in-memory list, rating, comment and error message.
C19_HorrorMatchesGenre ==
  InStep =>
    /\ horror.storage = storage
    /\ horror.reviews = reviews
    /\ horror.rating = rating
    /\ horror.comment = comment
    /\ horror.errorMessage = errorMessage
    /\ horror.currentMovie = currentMovie
    /\ horror.isModalOpen = isModalOpen

C19_Witness ==
  /\ InStep
  /\ Submitted /\ storage # pre.storage
  /\ pre.op = "comment"
  /\ Len(reviews.a) = 2
  /\ horror.storage = storage
  /\ DOMAIN storage = { StorageKey(id) : id \in MovieIds }

C19_WitnessRejected ==
  /\ InStep
  /\ Submitted /\ pre.rating # JNull /\ ~InRange(pre.rating)
  /\ pre.comment # <<>>
  /\ horror.errorMessage = RatingError

\* C20: in one tab, while a movie is open the in-memory list is the list
\* stored for it, also after another movie was closed with its list left
\* in memory; so an accepted submit adds its one review to what was stored
\* for the open movie and touches no other entry.
C20_MemoryIsStoredList ==
  /\ (currentMovie # JNull /\ ~crashed) =>
       loadReviewsFromLocalStorage(storage, currentMovie.id)
         = Returned(reviews)
  /\ (Submitted /\ storage # pre.storage) =>
       LET m == pre.currentMovie.id
           before == loadReviewsFromLocalStorage(pre.storage, m)
           after == loadReviewsFromLocalStorage(storage, m)
       IN  /\ after.v.a =
                before.v.a \o <<Review(pre.rating.n, pre.comment)>>
           /\ \A k \in DOMAIN pre.storage \ {StorageKey(m)} :
                storage[k] = pre.storage[k]

C20_Witness ==
  /\ Submitted /\ storage # pre.storage
  /\ pre.currentMovie.id = 11
  /\ StorageKey(1) \in DOMAIN pre.storage
  /\ Len(reviews.a) = 1
  /\ loadReviewsFromLocalStorage(storage, 1).v # reviews

\* the list stored for a movie, empty when there is no entry
StoredFor(store, id) == loadReviewsFromLocalStorage(store, id).v.a

IsPrefix(a, b) == Len(a) <= Len(b) /\ SubSeq(b, 1, Len(a)) = a

\* C21: in one tab the list stored for each movie only grows at its end:
\* over every event the list stored before is a prefix of the list stored
\* after, and an accepted submit makes the list of the open movie longer by
\* exactly one review.
C21_StoredListsAppendOnly ==
  /\ \A id \in MovieIds :
       IsPrefix(StoredFor(pre.storage, id), StoredFor(storage, id))
  /\ (Submitted /\ InRange(pre.rating) /\ pre.comment # <<>>) =>
       Len(StoredFor(storage, pre.currentMovie.id))
         = Len(StoredFor(pre.storage, pre.currentMovie.id)) + 1

C21_Witness ==
  /\ Submitted /\ InRange(pre.rating) /\ pre.comment # <<>>
  /\ Len(StoredFor(pre.storage, pre.currentMovie.id)) = 1
  /\ Len(StoredFor(storage, pre.currentMovie.id)) = 2
  /\ pre.op # "submit"

\* the videos the query answers for a movie
VideosOf(id) ==
  IF videoApi[id].ok
  THEN { videoApi[id].v[i] : i \in 1..Len(videoApi[id].v) }
  ELSE {}

\* C22 as stated: no trailer is held whenever the modal is closed, and a
\* trailer that is shown is one the videos query answered for the current
\* movie, whatever the order of opening, closing and responses.
C22_TrailerOfCurrentMovie ==
  /\ ~isModalOpen => ~Truthy(trailer)
  /\ (isModalOpen /\ Truthy(trailer)) =>
       currentMovie # JNull /\ trailer \in VideosOf(currentMovie.id)

\* the trailer of a movie that was closed is shown in the modal of another
C22_StaleTrailerShown ==
  /\ isModalOpen /\ Truthy(trailer)
  /\ trailer \notin VideosOf(currentMovie.id)

\* C23: the error message is non-empty exactly when the rating state holds
\* a number outside [1,10]: it is never left beside a rating in range or
\* beside the null rating, through rating and comment edits, submits and
\* the opening and closing of the modal.
C23_ErrorIffOutOfRange ==
  (errorMessage # "") <=> (rating # JNull /\ ~InRange(rating))

C23_Witness ==
  /\ ev.op = "rating"
  /\ pre.errorMessage = RatingError
  /\ pre.op \in {"open", "tab", "submit"}
  /\ InRange(rating)
  /\ errorMessage = ""

C23_WitnessCleared ==
  /\ Submitted /\ storage # pre.storage
  /\ rating = JNull /\ errorMessage = ""
  /\ pre.op = "rating"

\* C24: closeModal changes isModalOpen, currentMovie and trailer and
\* nothing else: rating, comment, error message, in-memory list, sort
\* option and storage stay; openModal leaves the rating and the comment
\* too, so a draft typed for one movie is in the form of the next movie
\* opened, where a submit saves it.
C24_CloseModalKeepsDraft ==
  [][/\ ev'.op = "close" =>
          /\ ~isModalOpen' /\ currentMovie' = JNull /\ trailer' = JNull
          /\ UNCHANGED <<rating, comment, errorMessage, reviews,
                         sortOption, storage>>
     /\ ev'.op = "open" => UNCHANGED <<rating, comment, errorMessage>>
     /\ (ev'.op = "submit" /\ storage' # storage) =>
          StoredFor(storage', currentMovie.id) =
            Append(StoredFor(storage, currentMovie.id),
                   Review(rating.n, comment))]_vars

\* a draft typed in the modal of the first movie is saved for the other
C24_Witness ==
  /\ Submitted /\ storage # pre.storage
  /\ pre.currentMovie # DraftMovie
  /\ StoredFor(storage, pre.currentMovie.id)
       = <<Review(pre.rating.n, pre.comment)>>
  /\ StoredFor(storage, DraftMovie.id) = <<>>
  /\ sortOption # "newest"

\* C25: the modal is open exactly when a current movie is set, and every
\* openModal leaves the details tab active.
C25_ModalOpenIffMovie ==
  /\ isModalOpen <=> currentMovie # JNull
  /\ ev.op = "open" => activeTab = "details"

C25_Witness ==
  /\ ev.op = "open"
  /\ pre.op = "close"
  /\ pre.activeTab = "reviews"
  /\ activeTab = "details"
  /\ isModalOpen /\ currentMovie # JNull

\* C26 as stated: when the videos response of a movie holds a YouTube
\* video, handling it leaves as trailer a YouTube video of that response,
\* never an absent value and never a video of another site.
C26_TrailerIsYouTubeVideo ==
  (ev.op = "trailer" /\ \E video \in VideosOf(ev.id) : IsYouTube(video)) =>
    /\ trailer \in VideosOf(ev.id)
    /\ IsYouTube(trailer)

\* the one YouTube video of a response is passed over
C26_TrailerUndefined ==
  /\ ev.op = "trailer"
  /\ \E video \in VideosOf(ev.id) : IsYouTube(video)
  /\ trailer = JUndefined

\* C27 as stated: the movies of the grid are, in catalog order, the fetched
\* movies whose title holds the query of the search box, letter case
\* aside, whatever the order of typing and of the catalog response.
C27_GridMatchesQuery ==
  filteredMovies = SearchResult(movies, query)

\* the catalog response arrived after a query was typed: the grid shows a
\* movie the query does not match
C27_GridIgnoresQuery ==
  /\ ev.op = "movies"
  /\ pre.op = "search"
  /\ query # <<>>
  /\ filteredMovies = movies
  /\ filteredMovies # SearchResult(movies, query)

====
